---- MODULE Spec2Model ----
(***************************************************************************)
(* OpenSeaBot (src/OpenSeaBot.py): the batch loop of get_address_details,  *)
(* the record store BotRes/Valid.csv, the browser sessions and main().     *)
(* Text is a sequence of one-character strings, so that substring tests,   *)
(* split('/'), replace('"', '') and the CSV quoting of to_csv are computed.*)
(***************************************************************************)
EXTENDS Integers, Sequences, FiniteSets, TLC

\* ------------------------------------------------------------------ bounds
MaxAddrs == 2
MaxRuns == 2

\* -------------------------------------------------------------------- text
Last(s) == s[Len(s)]

IsPrefix(s, t) == Len(s) <= Len(t) /\ SubSeq(t, 1, Len(s)) = s

\* Python's `sub in s` on str
Contains(sub, s) ==
    \E k \in 0..(Len(s) - Len(sub)) : SubSeq(s, k + 1, k + Len(sub)) = sub

\* Python's s.replace(ch, '') for a one-character ch
RECURSIVE Remove(_, _)
Remove(ch, s) ==
    IF s = <<>> THEN <<>>
    ELSE IF Head(s) = ch THEN Remove(ch, Tail(s))
    ELSE <<Head(s)>> \o Remove(ch, Tail(s))

\* Python's s.split(ch): the list of the segments between occurrences of ch
RECURSIVE SplitFrom(_, _, _)
SplitFrom(ch, s, cur) ==
    IF s = <<>> THEN <<cur>>
    ELSE IF Head(s) = ch THEN <<cur>> \o SplitFrom(ch, Tail(s), <<>>)
    ELSE SplitFrom(ch, Tail(s), Append(cur, Head(s)))

Split(ch, s) == SplitFrom(ch, s, <<>>)

RECURSIVE Join(_, _)
Join(sep, cells) ==
    IF cells = <<>> THEN <<>>
    ELSE IF Len(cells) = 1 THEN cells[1]
    ELSE cells[1] \o sep \o Join(sep, Tail(cells))

Digit(n) == <<"0", "1", "2", "3", "4", "5", "6", "7", "8", "9">>[n + 1]

Pad2(n) == <<Digit((n \div 10) % 10), Digit(n % 10)>>

Pad4(n) == Pad2(n \div 100) \o Pad2(n % 100)

\* datetime.strftime("%m-%d-%Y")
strftime(day) == Pad2(day.m) \o <<"-">> \o Pad2(day.d) \o <<"-">> \o Pad4(day.y)

\* the days the system clock passes through, one after the other; a run is
\* taken to lie within one day, a later run may fall on a later day of Days
Days == << [y |-> 2024, m |-> 1, d |-> 5] >>

\* ------------------------------------------------------------- to_csv
Sep == "|"

Quote == "\""

\* csv.QUOTE_MINIMAL: a cell holding the separator, the quote character or a
\* line break is quoted, its quote characters doubled
RECURSIVE DoubleQuotes(_)
DoubleQuotes(s) ==
    IF s = <<>> THEN <<>>
    ELSE IF Head(s) = Quote THEN <<Quote, Quote>> \o DoubleQuotes(Tail(s))
    ELSE <<Head(s)>> \o DoubleQuotes(Tail(s))

CsvCell(s) ==
    IF \E k \in 1..Len(s) : s[k] \in {Sep, Quote, "\n", "\r"}
    THEN <<Quote>> \o DoubleQuotes(s) \o <<Quote>>
    ELSE s

CsvLine(cells) == Join(<<Sep>>, [k \in 1..Len(cells) |-> CsvCell(cells[k])])

\* the keys of the stats dict, in insertion order
Columns ==
    << <<"T","o","d","a","y","s","D","a","t","e">>,
       <<"S","c","a","n","A","d","d","r","e","s","s">>,
       <<"C","o","l","l","e","c","t","i","o","n","N","a","m","e">>,
       <<"C","o","l","l","e","c","t","i","o","n">>,
       <<"A","s","s","e","t","N","u","m","b","e","r">>,
       <<"B","e","s","t","O","f","f","e","r">>,
       <<"P","r","e","m","i","u","m">> >>

\* the values of a stats dict in column order
Values(stats) ==
    << stats.TodaysDate, stats.ScanAddress, stats.CollectionName,
       stats.Collection, stats.AssetNumber, stats.BestOffer, stats.Premium >>

HeaderLine == CsvLine(Columns)

DataLine(stats) == CsvLine(Values(stats))

\* DataFrame([stats]).to_csv(path, index=False, sep='|') on a missing file, and
\* to_csv(path, mode='a', header=False, index=False, sep='|') on an existing one
Absent == [exists |-> FALSE, lines |-> <<>>]

to_csv_create(stats) == [exists |-> TRUE, lines |-> <<HeaderLine, DataLine(stats)>>]

\* mutant: the existing file is opened with mode 'w'
to_csv_truncate(file, stats) == [exists |-> TRUE, lines |-> <<DataLine(stats)>>]

to_csv_append(file, stats) ==
    [exists |-> TRUE, lines |-> Append(file.lines, DataLine(stats))]

\* mutant: the header is written on every call
save_stats_with_header(file, stats) ==
    [exists |-> TRUE, lines |-> file.lines \o <<HeaderLine, DataLine(stats)>>]

\* lines 252-255
save_stats(file, stats) ==
    IF ~file.exists THEN to_csv_create(stats) ELSE to_csv_append(file, stats)

\* ------------------------------------------------------- the marketplace
Unnamed == <<"U","n","n","a","m","e","d">>

NoText == <<>>

\* What the marketplace serves for an address: for each element the code looks
\* up, whether the wait sees it, whether find_element finds it, and its text.
\*   owner  : '[class="sc-29427738-0 sc-bdnxRM dKfiYh iIKkrq"]'      (216-217)
\*   anchor : '[class="sc-1f719d57-0 fKAlPV Asset--anchor"]'         (223, 231)
\*   label  : '[class="sc-29427738-0 sc-d0e902a1-3 ... kixOOB"]'     (228)
\*   link   : '[class="sc-1f719d57-0 fKAlPV CollectionLink--link"]'  (235, 239)
\*   offer  : '[class="... Price--fiat-amount-secondary"]'           (243)
Elem(visible, found, text) == [visible |-> visible, found |-> found, text |-> text]

Gone == Elem(FALSE, FALSE, NoText)

Stale == Elem(TRUE, FALSE, NoText)

Page(owner, anchor, label, link, offer) ==
    [owner |-> owner, anchor |-> anchor, label |-> label, link |-> link, offer |-> offer]

Addrs == { <<"a">>, <<"b">>, <<"c">>, <<"d">>, <<"e">>, <<"f">>, <<"g">> }

Web(addr) ==
    CASE addr = <<"a">> ->       \* everything present, label in quotes, name with a pipe
            Page(Elem(TRUE, TRUE, <<"B","o","b">>),
                 Elem(TRUE, TRUE, <<"x","/","7">>),
                 Elem(TRUE, TRUE, <<Quote,"C",Quote>>),
                 Elem(TRUE, TRUE, <<"N","|","M">>),
                 Elem(TRUE, TRUE, <<"5">>))
      [] addr = <<"b">> ->       \* unnamed owner, no optional element, href ends in '/'
            Page(Elem(TRUE, TRUE, <<"A","n"," ">> \o Unnamed),
                 Elem(TRUE, TRUE, <<"x","/","7","/">>),
                 Gone, Stale, Gone)
      [] addr = <<"c">> ->       \* the collection page renders no asset
            Page(Gone, Gone, Gone, Gone, Gone)
      [] addr = <<"d">> ->       \* the asset page never renders
            Page(Elem(TRUE, TRUE, <<"A","l">>),
                 Elem(TRUE, TRUE, <<"7">>),
                 Elem(TRUE, TRUE, <<"L">>),
                 Gone, Gone)
      [] addr = <<"e">> ->       \* no owner name, no offer, href with a query string
            Page(Gone,
                 Elem(TRUE, TRUE, <<"x","/","7","?","q">>),
                 Elem(TRUE, TRUE, <<"L">>),
                 Elem(TRUE, TRUE, <<"N">>),
                 Gone)
      [] addr = <<"f">> ->       \* owner name goes stale after the wait, href without '/'
            Page(Stale,
                 Elem(TRUE, TRUE, <<"8">>),
                 Gone,
                 Elem(TRUE, TRUE, <<"N">>),
                 Elem(TRUE, TRUE, <<"5">>))
      [] OTHER ->                \* "g": the anchor goes away between wait and lookup
            Page(Elem(TRUE, TRUE, Unnamed), Stale, Gone, Gone, Gone)

\* --------------------------------------------------------------- settings
NoFile == [exists |-> FALSE, json |-> <<>>]

JsonFile(obj) == [exists |-> TRUE, json |-> obj]

\* lines 115-117
DefaultSettings == [Settings |-> [ThreadsCount |-> 5]]

\* lines 106-122: the settings loaded and the settings file afterwards
get_settings(file) ==
    IF file.exists
    THEN [settings |-> file.json, file |-> file]
    ELSE [settings |-> DefaultSettings, file |-> JsonFile(DefaultSettings)]

\* the settings files the program may find: none, the one it wrote itself, and
\* one written by hand with the key main() reads
SettingsFiles ==
    { NoFile, JsonFile(DefaultSettings), JsonFile([Settings |-> [ThreadCount |-> 5]]) }

\* ------------------------------------------------------------------ state
VARIABLES
    file_settings,    \* BotRes/Settings.json
    file_addresses,   \* BotRes/Addresses.csv: the Address column
    file_valid,       \* BotRes/Valid.csv: [exists, lines]
    clock,            \* index into Days: the day datetime.now() reads in this run
    run,              \* number of the current process run
    settings,         \* self.settings
    pc,               \* position of the process in the code
    exc,              \* the exception that ended the process, if any
    addresses,        \* get_address_details: parameter
    counter,          \* get_address_details: counter (the loop's i is counter - 1)
    address,
    driver,           \* the session held by the local `driver` (0: none)
    sessions,         \* sessions of this process started and not yet quit
    address_name, collection, collection_name, best_offer, premium, asset_url,
    events,           \* history of this run: what happened to which address
    written           \* history: the stats dicts to_csv has saved, all runs

files == <<file_settings, file_addresses, file_valid>>

fields == <<collection, collection_name, best_offer, premium>>

locals == <<addresses, counter, address, address_name, asset_url>>

vars == <<file_settings, file_addresses, file_valid, clock, run, settings, pc, exc,
          addresses, counter, address, driver, sessions, address_name, collection,
          collection_name, best_offer, premium, asset_url, events, written>>

NoExc == [type |-> "", at |-> ""]

AddressLists == UNION { [1..n -> Addrs] : n \in 0..MaxAddrs }

\* the locals of a process before OpenSeaBot() is constructed
Unset ==
    [settings |-> <<>>, addresses |-> <<>>, counter |-> 0, address |-> NoText, driver |-> 0,
     address_name |-> NoText, collection |-> NoText, collection_name |-> NoText,
     best_offer |-> NoText, premium |-> NoText, asset_url |-> NoText]

Init ==
    /\ file_settings \in SettingsFiles
    /\ file_addresses \in AddressLists
    /\ file_valid = Absent
    /\ clock = 1
    /\ run = 1
    /\ written = <<>>
    /\ pc = "start"
    /\ exc = NoExc
    /\ sessions = {}
    /\ events = <<>>
    /\ settings = Unset.settings
    /\ addresses = Unset.addresses
    /\ counter = Unset.counter
    /\ address = Unset.address
    /\ driver = Unset.driver
    /\ address_name = Unset.address_name
    /\ collection = Unset.collection
    /\ collection_name = Unset.collection_name
    /\ best_offer = Unset.best_offer
    /\ premium = Unset.premium
    /\ asset_url = Unset.asset_url

\* ---------------------------------------------------------------- helpers
Goto(label) == pc' = label /\ exc' = exc

\* an exception nothing catches: it leaves get_address_details and main
Raise(type) == pc' = "raised" /\ exc' = [type |-> type, at |-> pc]

Note(ev) == events' = Append(events, [idx |-> counter, ev |-> ev])

page == Web(address)

\* ---------------------------------------------------------------- actions
\* OpenSeaBot() (lines 31-39): the settings are loaded, created when missing
__init__ ==
    /\ pc = "start"
    /\ settings' = get_settings(file_settings).settings
    /\ file_settings' = get_settings(file_settings).file
    /\ driver' = 0
    /\ IF file_settings.exists THEN UNCHANGED events ELSE Note("settings_created")
    /\ Goto("main")
    /\ UNCHANGED <<file_addresses, file_valid, clock, run, locals, sessions, fields,
                   written>>

\* main (lines 259-267) up to the loop of get_address_details (lines 196-198)
main ==
    /\ pc = "main"
    /\ IF "ThreadCount" \in DOMAIN settings["Settings"]
       THEN /\ addresses' = file_addresses
            /\ counter' = 0
            /\ Goto("for")
       ELSE /\ Raise("KeyError")
            /\ UNCHANGED <<addresses, counter>>
    /\ UNCHANGED <<files, clock, run, settings, address, driver, sessions, address_name,
                   asset_url, fields, events, written>>

\* mutant: the addresses are taken from the end of the list
for_next_reversed ==
    /\ pc = "for"
    /\ IF counter < Len(addresses)
       THEN /\ counter' = counter + 1
            /\ address' = addresses[Len(addresses) - counter]
            /\ Goto("get_driver")
       ELSE /\ Goto("exit")
            /\ UNCHANGED <<counter, address>>
    /\ UNCHANGED <<files, clock, run, settings, addresses, driver, sessions,
                   address_name, asset_url, fields, events, written>>

\* for i, address in enumerate(addresses): counter += 1 (lines 199-200)
for_next ==
    /\ pc = "for"
    /\ IF counter < Len(addresses)
       THEN /\ counter' = counter + 1
            /\ address' = addresses[counter + 1]
            /\ Goto("get_driver")
       ELSE /\ Goto("exit")
            /\ UNCHANGED <<counter, address>>
    /\ UNCHANGED <<files, clock, run, settings, addresses, driver, sessions,
                   address_name, asset_url, fields, events, written>>

\* driver = self.get_driver(proxy=True, headless=False) (line 201, lines 143-170):
\* webdriver.Chrome starts a session or raises
get_driver ==
    /\ pc = "get_driver"
    /\ \E started \in BOOLEAN :
        IF started
        THEN /\ driver' = counter
             /\ sessions' = sessions \cup {counter}
             /\ Note("session")
             /\ Goto("get_home")
        ELSE /\ Raise("WebDriverException")
             /\ UNCHANGED <<driver, sessions, events>>
    /\ UNCHANGED <<files, clock, run, settings, locals, fields, written>>

\* mutant: the four fields are not reset for the new address
get_home_no_reset ==
    /\ pc = "get_home"
    /\ \E loaded \in BOOLEAN :
        IF loaded THEN Goto("owner_name") ELSE Raise("WebDriverException")
    /\ UNCHANGED <<files, clock, run, settings, locals, driver, sessions, fields, events,
                   written>>

\* driver.get(final_url); collection, collection_name, best_offer, premium = ''
\* (lines 206-211)
get_home ==
    /\ pc = "get_home"
    /\ \E loaded \in BOOLEAN :
        IF loaded
        THEN /\ collection' = NoText
             /\ collection_name' = NoText
             /\ best_offer' = NoText
             /\ premium' = NoText
             /\ Goto("owner_name")
        ELSE /\ Raise("WebDriverException")
             /\ UNCHANGED fields
    /\ UNCHANGED <<files, clock, run, settings, locals, driver, sessions, events,
                   written>>

\* mutant: the owner name is compared with 'Unnamed' instead of searched for it
owner_name_compared ==
    /\ pc = "owner_name"
    /\ IF page.owner.visible /\ page.owner.found
       THEN /\ address_name' = page.owner.text
            /\ premium' = IF page.owner.text # Unnamed THEN <<"Y">> ELSE premium
            /\ Note("owner_read")
       ELSE /\ UNCHANGED <<address_name, premium>>
            /\ Note("owner_missing")
    /\ Goto("wait_anchor")
    /\ UNCHANGED <<files, clock, run, settings, addresses, counter, address, driver,
                   sessions, asset_url, collection, collection_name, best_offer,
                   written>>

\* the owner name and the premium flag (lines 215-221)
owner_name ==
    /\ pc = "owner_name"
    /\ IF page.owner.visible /\ page.owner.found
       THEN /\ address_name' = page.owner.text
            /\ premium' = IF ~Contains(Unnamed, page.owner.text) THEN <<"Y">> ELSE premium
            /\ Note("owner_read")
       ELSE /\ UNCHANGED <<address_name, premium>>
            /\ Note("owner_missing")
    /\ Goto("wait_anchor")
    /\ UNCHANGED <<files, clock, run, settings, addresses, counter, address, driver,
                   sessions, asset_url, collection, collection_name, best_offer,
                   written>>

\* mutant: the anchor wait stands outside try/except
wait_anchor_uncaught ==
    /\ pc = "wait_anchor"
    /\ IF page.anchor.visible
       THEN Note("anchor_visible") /\ Goto("collection")
       ELSE Note("anchor_timeout") /\ Raise("TimeoutException")
    /\ UNCHANGED <<files, clock, run, settings, locals, driver, sessions, fields,
                   written>>

\* the wait for the asset anchor (lines 222-226): on a timeout, `continue`
wait_anchor ==
    /\ pc = "wait_anchor"
    /\ IF page.anchor.visible
       THEN Note("anchor_visible") /\ Goto("collection")
       ELSE Note("anchor_timeout") /\ Goto("for")
    /\ UNCHANGED <<files, clock, run, settings, locals, driver, sessions, fields,
                   written>>

\* the collection label of the home page (lines 227-230)
collection_label ==
    /\ pc = "collection"
    /\ collection' = IF page.label.found THEN Remove(Quote, page.label.text)
                     ELSE collection
    /\ Goto("asset_url")
    /\ UNCHANGED <<files, clock, run, settings, locals, driver, sessions,
                   collection_name, best_offer, premium, events, written>>

\* asset_url = driver.find_element(...).get_attribute('href') (line 231)
get_asset_url ==
    /\ pc = "asset_url"
    /\ IF page.anchor.found
       THEN asset_url' = page.anchor.text /\ Goto("get_asset")
       ELSE Raise("NoSuchElementException") /\ UNCHANGED asset_url
    /\ UNCHANGED <<files, clock, run, settings, addresses, counter, address,
                   address_name, driver, sessions, fields, events, written>>

\* driver.get(asset_url) (lines 232-233)
get_asset ==
    /\ pc = "get_asset"
    /\ \E loaded \in BOOLEAN :
        IF loaded THEN Goto("wait_link") ELSE Raise("WebDriverException")
    /\ UNCHANGED <<files, clock, run, settings, locals, driver, sessions, fields,
                   events, written>>

\* mutant: the timeout of the link wait is passed over instead of `continue`
wait_link_pass ==
    /\ pc = "wait_link"
    /\ IF page.link.visible
       THEN Note("link_visible") /\ Goto("collection_name")
       ELSE Note("link_timeout") /\ Goto("collection_name")
    /\ UNCHANGED <<files, clock, run, settings, locals, driver, sessions, fields,
                   written>>

\* the wait for the asset page's collection link (lines 234-237): on a
\* timeout, `continue`
wait_link ==
    /\ pc = "wait_link"
    /\ IF page.link.visible
       THEN Note("link_visible") /\ Goto("collection_name")
       ELSE Note("link_timeout") /\ Goto("for")
    /\ UNCHANGED <<files, clock, run, settings, locals, driver, sessions, fields,
                   written>>

\* lines 238-241
get_collection_name ==
    /\ pc = "collection_name"
    /\ collection_name' = IF page.link.found THEN page.link.text ELSE collection_name
    /\ Goto("best_offer")
    /\ UNCHANGED <<files, clock, run, settings, locals, driver, sessions, collection,
                   best_offer, premium, events, written>>

\* mutant: the best-offer lookup stands outside try/except
get_best_offer_uncaught ==
    /\ pc = "best_offer"
    /\ IF page.offer.found
       THEN best_offer' = page.offer.text /\ Goto("save")
       ELSE UNCHANGED best_offer /\ Raise("NoSuchElementException")
    /\ UNCHANGED <<files, clock, run, settings, locals, driver, sessions, collection,
                   collection_name, premium, events, written>>

\* lines 242-245
get_best_offer ==
    /\ pc = "best_offer"
    /\ best_offer' = IF page.offer.found THEN page.offer.text ELSE best_offer
    /\ Goto("save")
    /\ UNCHANGED <<files, clock, run, settings, locals, driver, sessions, collection,
                   collection_name, premium, events, written>>

\* mutant: the first segment is taken
asset_number_first == Split("/", asset_url)[1]

\* asset_number = asset_url.split('/')[-1] (line 246)
asset_number == Last(Split("/", asset_url))

\* mutant: the record is stamped with the first address of the batch
stats_first_address(now) ==
    [TodaysDate |-> strftime(Days[now]), ScanAddress |-> addresses[1],
     CollectionName |-> collection_name, Collection |-> collection,
     AssetNumber |-> asset_number, BestOffer |-> best_offer, Premium |-> premium]

\* the stats dict (lines 247-248)
stats(now) ==
    [TodaysDate |-> strftime(Days[now]), ScanAddress |-> address,
     CollectionName |-> collection_name, Collection |-> collection,
     AssetNumber |-> asset_number, BestOffer |-> best_offer, Premium |-> premium]

\* mutant: a failing to_csv is swallowed
save_swallowed ==
    /\ pc = "save"
    /\ \E saved \in BOOLEAN :
        IF saved
        THEN /\ file_valid' = save_stats(file_valid, stats(clock))
             /\ written' = Append(written, stats(clock))
             /\ Note("saved")
             /\ Goto("finish")
        ELSE /\ Note("save_failed")
             /\ Goto("finish")
             /\ UNCHANGED <<file_valid, written>>
    /\ UNCHANGED <<file_settings, file_addresses, clock, run, settings, locals, driver,
                   sessions, fields>>

\* mutant: the session is closed before the record is saved
save_session_closed ==
    /\ pc = "save"
    /\ sessions' = sessions \ {driver}
    /\ \E saved \in BOOLEAN :
        IF saved
        THEN /\ file_valid' = save_stats(file_valid, stats(clock))
             /\ written' = Append(written, stats(clock))
             /\ Note("saved")
             /\ Goto("finish")
        ELSE /\ Note("save_failed")
             /\ Raise("OSError")
             /\ UNCHANGED <<file_valid, written>>
    /\ UNCHANGED <<file_settings, file_addresses, clock, run, settings, locals, driver,
                   fields>>

\* the record is built and saved (lines 246-256); to_csv may raise OSError
save ==
    /\ pc = "save"
    /\ \E saved \in BOOLEAN :
        IF saved
        THEN /\ file_valid' = save_stats(file_valid, stats(clock))
             /\ written' = Append(written, stats(clock))
             /\ Note("saved")
             /\ Goto("finish")
        ELSE /\ Note("save_failed")
             /\ Raise("OSError")
             /\ UNCHANGED <<file_valid, written>>
    /\ UNCHANGED <<file_settings, file_addresses, clock, run, settings, locals, driver,
                   sessions, fields>>

\* self.finish(driver=driver) (line 257, lines 173-179).  close() or quit() may
\* raise a WebDriverException, which is caught; quit() is skipped when close()
\* raised; close() may raise something else (the driver process is gone: a
\* urllib3 error), which nothing catches.
FinishOutcomes == {"closed", "close_webdriver_exception", "quit_webdriver_exception",
                   "close_other_exception"}

finish ==
    /\ pc = "finish"
    /\ \E o \in FinishOutcomes :
        /\ sessions' = IF o \in {"closed", "quit_webdriver_exception"}
                       THEN sessions \ {driver} ELSE sessions
        /\ IF o = "close_other_exception" THEN Raise("MaxRetryError") ELSE Goto("for")
    /\ UNCHANGED <<files, clock, run, settings, locals, driver, fields, events, written>>

\* the process has ended (returned, raised, or was interrupted anywhere) and
\* the program is launched again: the files stay, everything else is new
relaunch ==
    /\ run < MaxRuns
    /\ run' = run + 1
    /\ clock' \in clock..Len(Days)
    /\ pc' = "start"
    /\ exc' = NoExc
    /\ sessions' = {}
    /\ events' = <<>>
    /\ settings' = Unset.settings
    /\ addresses' = Unset.addresses
    /\ counter' = Unset.counter
    /\ address' = Unset.address
    /\ driver' = Unset.driver
    /\ address_name' = Unset.address_name
    /\ collection' = Unset.collection
    /\ collection_name' = Unset.collection_name
    /\ best_offer' = Unset.best_offer
    /\ premium' = Unset.premium
    /\ asset_url' = Unset.asset_url
    /\ UNCHANGED <<files, written>>

Next ==
    \/ __init__
    \/ main
    \/ for_next
    \/ get_driver
    \/ get_home
    \/ owner_name
    \/ wait_anchor
    \/ collection_label
    \/ get_asset_url
    \/ get_asset
    \/ wait_link
    \/ get_collection_name
    \/ get_best_offer
    \/ save
    \/ finish
    \/ relaunch

Spec == Init /\ [][Next]_vars

\* ------------------------------------------------------ reading the history
Happened(k, ev) == \E j \in 1..Len(events) : events[j] = [idx |-> k, ev |-> ev]

IsSaved(e) == e.ev = "saved"

\* the "saved" events of this run, in order
Saved == SelectSeq(events, IsSaved)

\* the stats dicts this run has saved, and the lines it has added to the store
RunStats == SubSeq(written, Len(written) - Len(Saved) + 1, Len(written))

RunLines ==
    SubSeq(file_valid.lines, Len(file_valid.lines) - Len(Saved) + 1, Len(file_valid.lines))

\* the positions in Saved of the records of address number k
SavedFor(k) == { j \in 1..Len(Saved) : Saved[j].idx = k }

BothGates(k) == Happened(k, "anchor_visible") /\ Happened(k, "link_visible")

\* address number k is past the save step of its iteration
PastSave(k) ==
    \/ counter > k
    \/ counter = k /\ pc \in {"finish", "for", "exit"}
    \/ counter = k /\ pc = "raised" /\ exc.at = "finish"

\* address number k was left without an exception: the process stands at the
\* loop head, ready to take the next address, or it has gone on to a later
\* address, or k was the last address and the batch has ended normally
LoopWentOn(k) ==
    /\ counter >= k
    /\ exc = NoExc \/ counter > k
    /\ counter = k => \/ pc = "for" /\ ENABLED for_next
                      \/ pc = "exit" /\ k = Len(addresses)

\* ------------------------------------------------------------------ claims
\* C1: an address that passed both the asset-anchor wait and the collection-link
\* wait has, once its iteration is past the save step, exactly one record in the
\* store, appended as one line, and that record's ScanAddress is the address;
\* before that, and for any address at any time, there is never more than one.
C1_OneRecordPerResolvedAddress ==
    /\ Len(Saved) <= Len(written)
    /\ Len(Saved) < Len(file_valid.lines) \/ Saved = <<>>
    /\ \A k \in 1..Len(addresses) :
        /\ Cardinality(SavedFor(k)) <= 1
        /\ BothGates(k) /\ PastSave(k) => Cardinality(SavedFor(k)) = 1
        /\ \A j \in SavedFor(k) :
            /\ RunStats[j].ScanAddress = addresses[k]
            /\ RunLines[j] = DataLine(RunStats[j])

\* both addresses of a batch resolved, whatever the first one's optional fields
C1_Witness ==
    /\ pc = "exit"
    /\ Len(addresses) = 2
    /\ addresses[1] # addresses[2]
    /\ BothGates(1) /\ BothGates(2)
    /\ Len(Saved) = 2
    /\ RunStats[1].BestOffer = NoText
    /\ RunStats[2].ScanAddress = addresses[2]

\* C2: an address whose asset anchor never becomes visible gets no record, and
\* its iteration ends at the loop head, from where the loop takes the next
\* address (or ends the batch when there is none): nothing is raised.
C2_AnchorTimeoutSkips ==
    \A k \in 1..Len(addresses) :
        Happened(k, "anchor_timeout") =>
            /\ SavedFor(k) = {}
            /\ LoopWentOn(k)

\* the address after a skipped one is being attempted
C2_Witness ==
    /\ counter = 2
    /\ Happened(1, "anchor_timeout")
    /\ Happened(2, "anchor_visible")
    /\ pc = "finish"

\* C3: an exception raised while an address is resolved (navigation to the home
\* URL or to the asset URL, or the lookup of the anchor's href) does not end
\* the batch: no later address is left unattempted.
C3_ExceptionDoesNotEndBatch ==
    pc = "raised" /\ exc.at \in {"get_home", "asset_url", "get_asset"}
        => counter = Len(addresses)

\* C4: when the loop moves on, the session of the address it leaves is closed,
\* however that address ended (record saved, skip at the anchor wait, skip at
\* the link wait).
C4_SessionClosedBeforeNext ==
    /\ pc \in {"for", "exit"}
    /\ counter >= 1
    /\ \/ Happened(counter, "saved")
       \/ Happened(counter, "anchor_timeout")
       \/ Happened(counter, "link_timeout")
    => counter \notin sessions

\* C5: at most one session is open at any time.
C5_AtMostOneSession == Cardinality(sessions) <= 1

\* C6: an address whose asset-page collection link never becomes visible gets no
\* record, whatever was extracted before, and the loop goes on to the next
\* address.
C6_LinkTimeoutSkips ==
    \A k \in 1..Len(addresses) :
        Happened(k, "link_timeout") =>
            /\ Happened(k, "anchor_visible")
            /\ SavedFor(k) = {}
            /\ LoopWentOn(k)

\* the premium flag and the collection label were set, the address was skipped
\* at the link wait, and the next address is being attempted
C6_Witness ==
    /\ counter = 2
    /\ pc = "get_home"
    /\ Happened(1, "link_timeout")
    /\ premium = <<"Y">>
    /\ collection # NoText
    /\ written = <<>>

\* C7: Premium is "Y" or empty in every record; the record an iteration saves
\* has Premium "Y" exactly when the owner name was read in that iteration and
\* does not contain "Unnamed"; whether the owner name is read or missing, the
\* iteration goes on to the anchor wait, and an address that passes both waits
\* without an owner name still gets its record.
C7_PremiumFlag ==
    /\ \A j \in 1..Len(written) : written[j].Premium \in {<<"Y">>, NoText}
    /\ pc = "finish" =>
        (Last(written).Premium = <<"Y">>
            <=> Happened(counter, "owner_read") /\ ~Contains(Unnamed, address_name))
    /\ events # <<>> /\ Last(events).ev \in {"owner_read", "owner_missing"}
        => pc = "wait_anchor" /\ exc = NoExc
    /\ \A k \in 1..Len(addresses) :
        Happened(k, "owner_missing") /\ BothGates(k) /\ PastSave(k) => SavedFor(k) # {}

\* a record with the flag, then one without it for an address with no owner name
C7_Witness ==
    /\ pc = "finish"
    /\ Len(Saved) = 2
    /\ RunStats[1].Premium = <<"Y">>
    /\ RunStats[2].Premium = NoText
    /\ Happened(2, "owner_missing")

\* C8: the store, missing before the first run, holds after any number of saved
\* records over the runs exactly one header line followed by one line per
\* record, in the order the records were saved.
C8_OneHeaderThenRows ==
    IF written = <<>>
    THEN file_valid = Absent
    ELSE /\ file_valid.exists
         /\ file_valid.lines =
                <<HeaderLine>> \o [k \in 1..Len(written) |-> DataLine(written[k])]
         /\ \A k \in 2..Len(file_valid.lines) : file_valid.lines[k] # HeaderLine

\* one record saved by the first run, two more by the second
C8_Witness ==
    /\ run = 2
    /\ pc = "exit"
    /\ Len(written) = 3
    /\ Len(Saved) = 2

\* C9: the store only grows: whatever lines it holds stay, unchanged and in
\* place, under every step of this run and of the runs after it.
C9_AppendOnly ==
    [][ /\ file_valid.exists => file_valid'.exists
        /\ IsPrefix(file_valid.lines, file_valid'.lines) ]_vars

\* a relaunched run has added a line behind the lines an earlier run left
C9_Witness ==
    /\ run = 2
    /\ pc = "finish"
    /\ Len(Saved) = 1
    /\ Len(file_valid.lines) = 3

\* C10 as stated: a record without a best offer has a non-empty ScanAddress and
\* a non-empty AssetNumber.
C10_EmptyOfferKeepsAssetNumber ==
    \A j \in 1..Len(written) :
        written[j].BestOffer = NoText =>
            written[j].ScanAddress # NoText /\ written[j].AssetNumber # NoText

\* C10 as amended: no exception leaves the three best-effort lookups; past both
\* waits the iteration reaches the save step; the saved record holds for each
\* optional field the text found, or nothing when the lookup failed, a
\* non-empty ScanAddress, and an AssetNumber that is empty exactly when the
\* asset URL ends in '/'.
C10_BestEffortFields ==
    /\ pc = "raised" => exc.at \notin {"collection", "collection_name", "best_offer"}
    /\ \A k \in 1..Len(addresses) :
        BothGates(k) /\ counter = k =>
            \/ pc \in {"collection_name", "best_offer", "save", "finish", "for", "exit"}
            \/ pc = "raised" /\ exc.at \in {"save", "finish"}
    /\ pc = "finish" =>
        LET r == Last(written) IN
        /\ r.Collection = IF page.label.found THEN Remove(Quote, page.label.text) ELSE NoText
        /\ r.CollectionName = IF page.link.found THEN page.link.text ELSE NoText
        /\ r.BestOffer = IF page.offer.found THEN page.offer.text ELSE NoText
        /\ r.ScanAddress = address /\ r.ScanAddress # NoText
        /\ r.AssetNumber = NoText <=> (asset_url = NoText \/ Last(asset_url) = "/")

\* a record saved with every optional field empty
C10_Witness ==
    /\ pc = "finish"
    /\ ~page.offer.found
    /\ Last(written).BestOffer = NoText
    /\ Last(written).Collection = NoText
    /\ Last(written).CollectionName = NoText
    /\ Last(written).Premium = NoText

\* C11: a session that cannot be started is fatal for its address only: the
\* loop goes on, so the process never ends on that failure with a later
\* address unattempted.
C11_SessionFailureContained ==
    pc = "raised" /\ exc.at = "get_driver" => counter = Len(addresses)

\* C12: finish never lets an error out, whatever close() or quit() raises.
C12_FinishNeverRaises == ~(pc = "raised" /\ exc.at = "finish")

\* C13: a to_csv that fails ends the run there with the OSError: the failing
\* address has no record, the store is as long as before, and no later
\* address is taken.
C13_SaveErrorEndsRun ==
    \A k \in 1..Len(addresses) :
        Happened(k, "save_failed") =>
            /\ pc = "raised"
            /\ exc = [type |-> "OSError", at |-> "save"]
            /\ counter = k
            /\ Last(events) = [idx |-> k, ev |-> "save_failed"]
            /\ SavedFor(k) = {}
            /\ Len(file_valid.lines) = IF written = <<>> THEN 0 ELSE Len(written) + 1

\* the write for the first of two addresses failed
C13_Witness ==
    /\ Len(addresses) = 2
    /\ Happened(1, "save_failed")
    /\ BothGates(1)
    /\ pc = "raised"

\* small is the subsequence of big at the increasing positions pos
IsSubsequenceAt(small, big, pos) ==
    /\ Len(pos) = Len(small)
    /\ \A j \in 1..Len(pos) : pos[j] \in 1..Len(big) /\ small[j] = big[pos[j]]
    /\ \A j \in 1..(Len(pos) - 1) : pos[j] < pos[j + 1]

\* C14: the batch is the Address column in file order; the addresses are taken
\* in that order, one after the other; the records of a run carry, in the
\* order they were saved, the addresses of strictly increasing positions of the
\* list: a subsequence of it.
C14_InputOrderKept ==
    /\ pc \notin {"start", "main"} /\ exc.at # "main" => addresses = file_addresses
    /\ counter \in 0..Len(addresses)
    /\ counter >= 1 => address = addresses[counter]
    /\ \A j \in 1..Len(events) : events[j].idx <= counter
    /\ \A j \in 1..(Len(events) - 1) : events[j].idx <= events[j + 1].idx
    /\ IsSubsequenceAt([j \in 1..Len(Saved) |-> RunStats[j].ScanAddress], addresses,
                       [j \in 1..Len(Saved) |-> Saved[j].idx])

\* two different addresses, both resolved, the batch ended
C14_Witness ==
    /\ pc = "exit"
    /\ Len(Saved) = 2
    /\ RunStats[1].ScanAddress # RunStats[2].ScanAddress
    /\ RunStats[1].CollectionName # NoText

\* the part of a URL behind its last '/', the whole URL when it has none
FinalSegment(url) ==
    LET slashes == { k \in 1..Len(url) : url[k] = "/" } IN
    IF slashes = {} THEN url
    ELSE LET last == CHOOSE k \in slashes : \A m \in slashes : m <= k IN
         SubSeq(url, last + 1, Len(url))

\* C15: the record an iteration saves has as AssetNumber the final segment of
\* the href the asset anchor of that address carries.
C15_AssetNumberIsFinalSegment ==
    /\ pc = "finish" =>
        /\ asset_url = page.anchor.text
        /\ Last(written).AssetNumber = FinalSegment(page.anchor.text)
    /\ \A j \in 1..Len(Saved) :
        RunStats[j].AssetNumber = FinalSegment(Web(addresses[Saved[j].idx]).anchor.text)

\* records for an href ending in '/', then for one without any '/'
C15_Witness ==
    /\ pc = "finish"
    /\ Len(Saved) = 2
    /\ Last(Web(addresses[1]).anchor.text) = "/"
    /\ RunStats[1].AssetNumber = NoText
    /\ "/" \notin { asset_url[k] : k \in 1..Len(asset_url) }
    /\ RunStats[2].AssetNumber = asset_url

\* C16: while an address is worked on, the local driver holds the session
\* started for that address, and it is open; when the loop is back at its
\* head, or has ended, no session is left.
C16_OneSessionPerAddress ==
    /\ pc \in {"get_home", "owner_name", "wait_anchor", "collection", "asset_url",
               "get_asset", "wait_link", "collection_name", "best_offer", "save",
               "finish"}
        => driver = counter /\ driver \in sessions
    /\ pc \in {"for", "exit"} => sessions = {}

\* the outcomes address number k has reached: a record, or one of the two skips
Outcomes(k) ==
    { j \in 1..Len(events) :
        /\ events[j].idx = k
        /\ events[j].ev \in {"saved", "anchor_timeout", "link_timeout"} }

\* the process has ended, and neither on a navigation that did not return nor
\* on a write that failed
Ended ==
    \/ pc = "exit"
    \/ pc = "raised" /\ exc.at \notin {"main", "get_home", "get_asset", "save"}

\* C17: when every navigation returns and every wait succeeds or times out,
\* the batch ends with every address of the list at exactly one outcome, a
\* record or a skip.
C17_EveryAddressOneOutcome ==
    Ended => \A k \in 1..Len(addresses) : Cardinality(Outcomes(k)) = 1

\* C18: a record of address number k is saved only after the anchor wait and
\* then the link wait of that same iteration have succeeded, in that order,
\* and while the session of that iteration is still open: finish comes after.
C18_SavedAfterGatesBeforeClose ==
    /\ \A j \in 1..Len(events) :
        events[j].ev = "saved" =>
            \E a, b \in 1..Len(events) :
                /\ a < b /\ b < j
                /\ events[a] = [idx |-> events[j].idx, ev |-> "anchor_visible"]
                /\ events[b] = [idx |-> events[j].idx, ev |-> "link_visible"]
    /\ \A k \in 1..Len(addresses) : ~BothGates(k) => SavedFor(k) = {}
    /\ pc = "finish" =>
        /\ Last(events) = [idx |-> counter, ev |-> "saved"]
        /\ driver = counter /\ driver \in sessions

\* the second address was saved, session still open, after the first one
\* stopped at a gate
C18_Witness ==
    /\ pc = "finish"
    /\ counter = 2
    /\ ~BothGates(1)
    /\ Happened(1, "anchor_visible")
    /\ SavedFor(1) = {}
    /\ SavedFor(2) # {}
    /\ driver \in sessions

\* C19: with no settings file at startup, the settings get_settings writes and
\* reads back let main find its worker count, so main goes on to the batch.
C19_DefaultSettingsServeMain ==
    Happened(0, "settings_created") => ~(pc = "raised" /\ exc.at = "main")

\* the page the record at position j of this run was read from
PageOf(j) == Web(addresses[Saved[j].idx])

\* C20: an optional field of a record is empty or is what the pages of the
\* record's own address gave, whatever the addresses before it left behind.
C20_NoCarryOver ==
    /\ pc = "owner_name" =>
        /\ collection = NoText /\ collection_name = NoText
        /\ best_offer = NoText /\ premium = NoText
    /\ \A j \in 1..Len(Saved) :
        /\ RunStats[j].Collection # NoText =>
            /\ PageOf(j).label.found
            /\ RunStats[j].Collection = Remove(Quote, PageOf(j).label.text)
        /\ RunStats[j].CollectionName # NoText =>
            PageOf(j).link.found /\ RunStats[j].CollectionName = PageOf(j).link.text
        /\ RunStats[j].BestOffer # NoText =>
            PageOf(j).offer.found /\ RunStats[j].BestOffer = PageOf(j).offer.text
        /\ RunStats[j].Premium # NoText =>
            /\ Happened(Saved[j].idx, "owner_read")
            /\ ~Contains(Unnamed, PageOf(j).owner.text)

\* the first address was skipped at the link wait with its label and premium
\* flag already read; the record of the second has neither
C20_Witness ==
    /\ pc = "finish"
    /\ counter = 2
    /\ Happened(1, "link_timeout")
    /\ Happened(1, "owner_read")
    /\ Web(addresses[1]).label.found
    /\ ~Contains(Unnamed, Web(addresses[1]).owner.text)
    /\ Last(written).Collection = NoText
    /\ Last(written).Premium = NoText

====
